---- MODULE Spec2Model ----
(***************************************************************************)
(* A model of the bookkeeping pipeline of src/src/data_loader.py as it is  *)
(* driven by main() in src/main.py: a journal (one row per debit/credit    *)
(* leg pair, continuation rows with blank date and description) is read,   *)
(* numbered by transaction, narrowed to a period, and turned into the      *)
(* general ledger, the trial balance, the financial statements and the     *)
(* daily trend.                                                            *)
(*                                                                         *)
(* A pandas DataFrame is a sequence of records (its rows in order).  A     *)
(* blank cell is NaT (date), NaN (description, account name).  A blank     *)
(* amount is the amount 0.                                                 *)
(***************************************************************************)
EXTENDS Integers, Sequences, FiniteSets, TLC

VARIABLES
    journal,     \* the rows of the file, in file order (input of read_data)
    pc,          \* where main() stands
    df,          \* read_data's result: the rows with their transaction id
    start_date,  \* the period chosen in the sidebar
    end_date,
    df_period,   \* extract_period_data's result
    df_ledger,   \* create_general_ledger's result (tab 3)
    df_tb,       \* create_trial_balance's result (tab 2)
    df_pl,       \* create_financial_statements' results (tab 2)
    df_bs,
    df_trend,    \* calculate_daily_trends' result (tab 1)
    metrics,     \* _prepare_kpi_data's figures (tab 1)
    df_cf        \* calculate_monthly_cashflow's result (tab 1)

vars == <<journal, pc, df, start_date, end_date, df_period, df_ledger,
          df_tb, df_pl, df_bs, df_trend, metrics, df_cf>>

-----------------------------------------------------------------------------
(* Bounds of the model. *)

MaxRows == 2
MaxAmt == 2
MaxDate == 2

-----------------------------------------------------------------------------
(* Blank cells. *)

NaT == 0
NaN == "NaN"

(* Generic helpers on sequences of integers and sets. *)

RECURSIVE SumSeq(_)
SumSeq(s) == IF s = <<>> THEN 0 ELSE Head(s) + SumSeq(Tail(s))

MaxOf(S) == CHOOSE x \in S : \A y \in S : y <= x
MinOf(S) == CHOOSE x \in S : \A y \in S : x <= y

Abs(x) == IF x < 0 THEN -x ELSE x

Column(d, f) == [i \in 1..Len(d) |-> d[i][f]]

-----------------------------------------------------------------------------
(* src/constants.py is not part of the sources at hand: the three tables   *)
(* it exports are modelled from the specification's data model.            *)

(* Account names, in the order string comparison gives them. *)
AccountOrder ==
    <<"Cash", "CashOverShort", "Loan", "Misc", "Rent", "RetainedEarnings", "Sales">>

Accounts == {AccountOrder[i] : i \in 1..Len(AccountOrder)}

ACCOUNT_TYPE_MAP ==
    [a \in {"Cash", "Loan", "RetainedEarnings", "Sales", "Rent"} |->
        CASE a = "Cash" -> "asset"
          [] a = "Loan" -> "liability"
          [] a = "RetainedEarnings" -> "equity"
          [] a = "Sales" -> "revenue"
          [] a = "Rent" -> "expense"]

TYPE_ORDER ==
    [c \in {"asset", "liability", "equity", "revenue", "expense"} |->
        CASE c = "asset" -> 1
          [] c = "liability" -> 2
          [] c = "equity" -> 3
          [] c = "revenue" -> 4
          [] c = "expense" -> 5]

DYNAMIC_ACCOUNTS == {"CashOverShort"}

-----------------------------------------------------------------------------
(* pandas primitives. *)

(* Series.ffill(): a blank cell takes the last non-blank cell above it, in *)
(* row order over the whole column; a leading blank stays blank.           *)
ffill(s, blank) ==
    [i \in 1..Len(s) |->
        LET above == {j \in 1..i : s[j] # blank}
        IN IF above = {} THEN blank ELSE s[MaxOf(above)]]

(* A comparison with NaT is False. *)
DateGE(a, b) == a # NaT /\ b # NaT /\ a >= b
DateLE(a, b) == a # NaT /\ b # NaT /\ a <= b
DateGT(a, b) == a # NaT /\ b # NaT /\ a > b

(* Series.min() skips NaT; the minimum of no date is NaT. *)
DateMin(s) ==
    LET present == {s[i] : i \in 1..Len(s)} \ {NaT}
    IN IF present = {} THEN NaT ELSE MinOf(present)

(* df[mask]: the rows whose index is in keep, in order. *)
RECURSIVE RowsWhere(_, _, _)
RowsWhere(d, keep, i) ==
    IF i > Len(d) THEN <<>>
    ELSE (IF i \in keep THEN <<d[i]>> ELSE <<>>) \o RowsWhere(d, keep, i + 1)

-----------------------------------------------------------------------------
(* Step 2: transaction ids. *)

(* A variant that takes only a dated row for the start of a transaction,   *)
(* of which C12 does not hold.                                             *)
is_new_transaction_by_date_only(d, i) == d[i].date # NaT

is_new_transaction(d, i) == d[i].date # NaT \/ d[i].desc # NaN

(* is_new_transaction.astype(int).cumsum(): the running sum of the flags,  *)
(* from the first row down.                                                *)
RECURSIVE flags_cumsum(_, _)
flags_cumsum(d, i) ==
    IF i = 0 THEN 0
    ELSE flags_cumsum(d, i - 1) + (IF is_new_transaction(d, i) THEN 1 ELSE 0)

add_trans_id(df_journal) ==
    [i \in 1..Len(df_journal) |->
        [date |-> df_journal[i].date, desc |-> df_journal[i].desc,
         dacct |-> df_journal[i].dacct, damt |-> df_journal[i].damt,
         cacct |-> df_journal[i].cacct, camt |-> df_journal[i].camt,
         tid |-> flags_cumsum(df_journal, i)]]

read_data(file) == add_trans_id(file)

-----------------------------------------------------------------------------
(* Period extraction. *)

(* A variant that tests the dates as written, without filling them, of     *)
(* which C3 does not hold.                                                 *)
temp_dates_unfilled(d) == Column(d, "date")

temp_dates(d) == ffill(Column(d, "date"), NaT)

mask_in_period(d, s, e) ==
    {i \in 1..Len(d) : DateGE(temp_dates(d)[i], s) /\ DateLE(temp_dates(d)[i], e)}

extract_period_data(d, s, e) ==
    LET target_ids == {d[i].tid : i \in mask_in_period(d, s, e)}
    IN RowsWhere(d, {i \in 1..Len(d) : d[i].tid \in target_ids}, 1)

-----------------------------------------------------------------------------
(* The carry-forward filter. *)

(* The descriptions of the model; those of KeywordDescriptions hold one of *)
(* the keywords of the filter's pattern.  str(NaN) is "nan", which holds   *)
(* none.                                                                   *)
Descriptions == {"sale", "zenki-kurikoshi"}
KeywordDescriptions == {"zenki-kurikoshi"}

str_contains_pattern(desc) == desc \in KeywordDescriptions

(* A variant that fills the date column only, of which C14 does not hold.  *)
ffill_date_only(d) ==
    [i \in 1..Len(d) |-> [d[i] EXCEPT !.date = ffill(Column(d, "date"), NaT)[i]]]

(* The copy of the frame with the date and description columns filled. *)
ffill_date_desc(d) ==
    [i \in 1..Len(d) |->
        [d[i] EXCEPT !.date = ffill(Column(d, "date"), NaT)[i],
                     !.desc = ffill(Column(d, "desc"), NaN)[i]]]

mask_keyword(df_clean, i) == str_contains_pattern(df_clean[i].desc)

(* A variant that also drops a carry-forward row on the first date, of     *)
(* which C4 does not hold.                                                 *)
mask_on_or_after_start(df_clean, first_date, i) ==
    DateGE(df_clean[i].date, first_date)

mask_after_start(df_clean, first_date, i) == DateGT(df_clean[i].date, first_date)

mask_to_drop(df_clean) ==
    LET first_date == DateMin(Column(df_clean, "date"))
    IN {i \in 1..Len(df_clean) :
            mask_keyword(df_clean, i) /\ mask_after_start(df_clean, first_date, i)}

remove_intermediate_carry_forwards(d) ==
    LET df_clean == ffill_date_desc(d)
    IN RowsWhere(df_clean, (1..Len(df_clean)) \ mask_to_drop(df_clean), 1)

-----------------------------------------------------------------------------
(* The ledger: one row per leg, the debit legs first, then the credit      *)
(* legs; a leg without an account name is dropped.                         *)

debit_leg(r) ==
    [date |-> r.date, tid |-> r.tid, desc |-> r.desc,
     account |-> r.dacct, amount |-> r.damt, side |-> "debit"]

(* A variant that takes the credit leg's amount from the debit column, of  *)
(* which C1 does not hold.                                                 *)
credit_leg_with_debit_amount(r) ==
    [date |-> r.date, tid |-> r.tid, desc |-> r.desc,
     account |-> r.cacct, amount |-> r.damt, side |-> "credit"]

credit_leg(r) ==
    [date |-> r.date, tid |-> r.tid, desc |-> r.desc,
     account |-> r.cacct, amount |-> r.camt, side |-> "credit"]

make_ledger_data(d) ==
    LET df_debit == [i \in 1..Len(d) |-> debit_leg(d[i])]
        df_credit == [i \in 1..Len(d) |-> credit_leg(d[i])]
    IN SelectSeq(df_debit \o df_credit, LAMBDA l : l.account # NaN)

(* groupby(tid)[account].apply(list): the account names of one side of one *)
(* transaction, one entry per leg.                                         *)
side_map(ledger, side, tid) ==
    Column(SelectSeq(ledger, LAMBDA l : l.side = side /\ l.tid = tid), "account")

get_partner(ledger, row) ==
    LET partners == IF row.side = "debit"
                    THEN side_map(ledger, "credit", row.tid)
                    ELSE side_map(ledger, "debit", row.tid)
    IN IF Len(partners) = 0 THEN "-"
       ELSE IF Len(partners) = 1 THEN partners[1]
       ELSE "shokuchi"

create_general_ledger(df_journal) ==
    LET ledger == make_ledger_data(ffill_date_desc(df_journal))
    IN [i \in 1..Len(ledger) |->
        [date |-> ledger[i].date, tid |-> ledger[i].tid, desc |-> ledger[i].desc,
         account |-> ledger[i].account, amount |-> ledger[i].amount,
         side |-> ledger[i].side, partner |-> get_partner(ledger, ledger[i])]]

-----------------------------------------------------------------------------
(* The trial balance. *)

(* pivot_table(index=account, columns=side, values=amount, aggfunc=sum,    *)
(* fill_value=0): one row per account of the ledger, in name order.        *)
side_total(ledger, account, side) ==
    SumSeq(Column(SelectSeq(ledger, LAMBDA l : l.account = account /\ l.side = side),
                  "amount"))

pivot_by_account(ledger) ==
    LET present == {ledger[i].account : i \in 1..Len(ledger)}
        index == SelectSeq(AccountOrder, LAMBDA a : a \in present)
    IN [k \in 1..Len(index) |->
        [account |-> index[k],
         debit |-> side_total(ledger, index[k], "debit"),
         credit |-> side_total(ledger, index[k], "credit")]]

(* map(ACCOUNT_TYPE_MAP).fillna(unknown) *)
classify(account) ==
    IF account \in DOMAIN ACCOUNT_TYPE_MAP THEN ACCOUNT_TYPE_MAP[account] ELSE "unknown"

(* A variant that takes a zero balance for a debit balance, of which C6    *)
(* does not hold.                                                          *)
tb_dynamic_account_type_zero_as_debit(account, class, balance) ==
    IF account \in DYNAMIC_ACCOUNTS
    THEN IF balance >= 0 THEN "expense" ELSE "revenue"
    ELSE class

(* The class of one row after _tb_dynamic_account_type. *)
tb_dynamic_account_type(account, class, balance) ==
    IF account \in DYNAMIC_ACCOUNTS
    THEN IF balance > 0 THEN "expense"
         ELSE IF balance < 0 THEN "revenue"
         ELSE class
    ELSE class

debit_or_credit(x) == IF x > 0 THEN "debit" ELSE IF x < 0 THEN "credit" ELSE "-"

sort_key(class) == IF class \in DOMAIN TYPE_ORDER THEN TYPE_ORDER[class] ELSE 99

NameRank(a) == CHOOSE i \in 1..Len(AccountOrder) : AccountOrder[i] = a

(* sort_values(by=[SortKey, account]) *)
by_sortkey_and_name(a, b) ==
    \/ a.SortKey < b.SortKey
    \/ a.SortKey = b.SortKey /\ NameRank(a.account) < NameRank(b.account)

tb_row(p) ==
    LET diff == p.debit - p.credit
        class == tb_dynamic_account_type(p.account, classify(p.account), diff)
    IN [account |-> p.account, debit |-> p.debit, credit |-> p.credit,
        class |-> class, diff |-> diff, dc |-> debit_or_credit(diff),
        balance |-> Abs(diff), SortKey |-> sort_key(class)]

create_trial_balance(d) ==
    LET df_normalized == remove_intermediate_carry_forwards(d)
        ledger == make_ledger_data(df_normalized)
        tb == pivot_by_account(ledger)
    IN SortSeq([k \in 1..Len(tb) |-> tb_row(tb[k])], by_sortkey_and_name)

-----------------------------------------------------------------------------
(* The financial statements. *)

target_account == "RetainedEarnings"

statement_row(r) ==
    [class |-> r.class, account |-> r.account, balance |-> r.balance,
     diff |-> r.diff, SortKey |-> r.SortKey]

pl_rows(tb) ==
    SelectSeq([k \in 1..Len(tb) |-> statement_row(tb[k])],
              LAMBDA r : r.class \in {"revenue", "expense"})

bs_rows(tb) ==
    SelectSeq([k \in 1..Len(tb) |-> statement_row(tb[k])],
              LAMBDA r : r.class \in {"asset", "liability", "equity"})

pl_net_balance(tb) == SumSeq(Column(pl_rows(tb), "diff"))

net_income(tb) == -pl_net_balance(tb)

(* The retained-earnings fold: add to the row when there is one, else add  *)
(* a row of class equity with sort key 3.                                  *)
fold_retained_earnings(bs, net) ==
    IF \E k \in 1..Len(bs) : bs[k].account = target_account
    THEN [k \in 1..Len(bs) |->
            IF bs[k].account = target_account
            THEN [bs[k] EXCEPT !.diff = bs[k].diff + net]
            ELSE bs[k]]
    ELSE Append(bs, [class |-> "equity", account |-> target_account,
                     balance |-> 0, diff |-> net, SortKey |-> 3])

(* A variant that keeps the absolute balances of before the fold, of which *)
(* C9 does not hold.                                                       *)
balance_sheet_stale_balance(tb) ==
    SortSeq(fold_retained_earnings(bs_rows(tb), pl_net_balance(tb)),
            by_sortkey_and_name)

balance_sheet(tb) ==
    LET folded == fold_retained_earnings(bs_rows(tb), pl_net_balance(tb))
    IN SortSeq([k \in 1..Len(folded) |->
                    [folded[k] EXCEPT !.balance = Abs(folded[k].diff)]],
               by_sortkey_and_name)

create_financial_statements(tb) ==
    [df_pl |-> pl_rows(tb), df_bs |-> balance_sheet(tb)]

(* The section totals display_finalcial_statements shows. *)
section_total(bs, class) ==
    SumSeq(Column(SelectSeq(bs, LAMBDA r : r.class = class), "balance"))

-----------------------------------------------------------------------------
(* The dashboard's figures. *)

class_total(tb, class) ==
    SumSeq(Column(SelectSeq(tb, LAMBDA r : r.class = class), "balance"))

(* The figures before the trial balance is made. *)
no_metrics ==
    [net_assets |-> 0, total_assets |-> 0, net_income |-> 0, total_expense |-> 0]

prepare_kpi_data(tb) ==
    LET total_revenue == class_total(tb, "revenue")
        total_expense == class_total(tb, "expense")
        total_assets == class_total(tb, "asset")
        total_liabilities == class_total(tb, "liability")
    IN [net_assets |-> total_assets - total_liabilities,
        total_assets |-> total_assets,
        net_income |-> total_revenue - total_expense,
        total_expense |-> total_expense]

-----------------------------------------------------------------------------
(* The daily trend. *)

(* A variant that signs a liability leg as an asset leg, of which C5 does  *)
(* not hold.                                                               *)
calculate_amount_liability_as_asset(row) ==
    LET kind == classify(row.account)
    IN IF kind \in {"asset", "liability"}
       THEN IF row.side = "debit" THEN row.amount ELSE -row.amount
       ELSE 0

calculate_amount(row) ==
    LET kind == classify(row.account)
    IN IF kind = "asset"
       THEN IF row.side = "debit" THEN row.amount ELSE -row.amount
       ELSE IF kind = "liability"
       THEN IF row.side = "credit" THEN row.amount ELSE -row.amount
       ELSE 0

(* A variant that leaves the carry-forward transactions in, of which C15   *)
(* does not hold.                                                          *)
bs_items_with_carry_forwards(d) ==
    SelectSeq(make_ledger_data(ffill_date_desc(d)),
              LAMBDA l : classify(l.account) \in {"asset", "liability"})

bs_items(d) ==
    SelectSeq(make_ledger_data(remove_intermediate_carry_forwards(ffill_date_desc(d))),
              LAMBDA l : classify(l.account) \in {"asset", "liability"})

(* pivot_table(index=date, columns=class, values=change, aggfunc=sum,      *)
(* fill_value=0): one row per date of the items, in date order; a leg      *)
(* without a date is in no group.                                          *)
daily_change(items, date, class) ==
    SumSeq([k \in 1..Len(SelectSeq(items, LAMBDA l : l.date = date
                                                  /\ classify(l.account) = class)) |->
              calculate_amount(SelectSeq(items, LAMBDA l : l.date = date
                                                  /\ classify(l.account) = class)[k])])

RECURSIVE SortedDates(_)
SortedDates(S) ==
    IF S = {} THEN <<>> ELSE <<MinOf(S)>> \o SortedDates(S \ {MinOf(S)})

daily_changes(items) ==
    LET dates == SortedDates({items[i].date : i \in 1..Len(items)} \ {NaT})
    IN [k \in 1..Len(dates) |->
        [date |-> dates[k],
         asset |-> daily_change(items, dates[k], "asset"),
         liability |-> daily_change(items, dates[k], "liability")]]

RECURSIVE cumsum(_, _, _)
cumsum(changes, f, k) ==
    IF k = 0 THEN 0 ELSE cumsum(changes, f, k - 1) + changes[k][f]

calculate_daily_trends(d) ==
    LET changes == daily_changes(bs_items(d))
    IN [k \in 1..Len(changes) |->
        [date |-> changes[k].date,
         asset |-> cumsum(changes, "asset", k),
         liability |-> cumsum(changes, "liability", k),
         equity |-> cumsum(changes, "asset", k) - cumsum(changes, "liability", k)]]

-----------------------------------------------------------------------------
(* The monthly cash flow. *)

(* The calendar of the model: one day a month, MonthsPerYear months a      *)
(* year; day 1 is the first month of year 1.                               *)
MonthsPerYear == 2

(* dt.strftime('%Y-%m'): the month key of a date, the year in its leading  *)
(* digits and the month in its last two; keys compare as their months do   *)
(* in time.  The key of no date is blank.                                  *)
strftime_Ym(date) ==
    IF date = NaT THEN NaT
    ELSE (((date - 1) \div MonthsPerYear) + 1) * 100
            + (((date - 1) % MonthsPerYear) + 1)

(* A variant that takes every month for a month of one year, of which C13  *)
(* does not hold.                                                          *)
year_of_month_ignored(month) == 0

(* str[:4] of a month key: its leading year. *)
year_of_month(month) == month \div 100

(* The frame with its filled date, the class of each side and the month.   *)
with_class_and_month(d) ==
    LET df_copy == ffill_date_desc(d)
    IN [i \in 1..Len(df_copy) |->
        [dclass |-> classify(df_copy[i].dacct), damt |-> df_copy[i].damt,
         cclass |-> classify(df_copy[i].cacct), camt |-> df_copy[i].camt,
         month |-> strftime_Ym(df_copy[i].date)]]

(* df[df[side class] == class].groupby(month)[side amount].sum(): the      *)
(* months of the group keys, and the sum of one month; a row without a     *)
(* month is in no group.                                                   *)
group_months(df_copy, side, class) ==
    {df_copy[i].month : i \in {j \in 1..Len(df_copy) : df_copy[j][side] = class}}
        \ {NaT}

group_sum(df_copy, side, amount, class, month) ==
    SumSeq(Column(SelectSeq(df_copy, LAMBDA r : r[side] = class /\ r.month = month),
                  amount))

(* a.sub(b, fill_value=0), at one month of either. *)
net_of(df_copy, class, plus, plus_amt, minus, minus_amt, month) ==
    group_sum(df_copy, plus, plus_amt, class, month)
        - group_sum(df_copy, minus, minus_amt, class, month)

(* groupby(year)[net].cumsum(): each row's net added to the running sum of *)
(* the rows above it that have its year.                                   *)
RECURSIVE year_cumsum(_, _)
year_cumsum(rows, k) ==
    LET above == {j \in 1..(k - 1) : rows[j].year = rows[k].year}
    IN rows[k].net + (IF above = {} THEN 0 ELSE year_cumsum(rows, MaxOf(above)))

calculate_monthly_cashflow(d) ==
    LET df_copy == with_class_and_month(d)
        income_months == group_months(df_copy, "cclass", "revenue")
                            \cup group_months(df_copy, "dclass", "revenue")
        expense_months == group_months(df_copy, "dclass", "expense")
                            \cup group_months(df_copy, "cclass", "expense")
        months == SortedDates(income_months \cup expense_months)
        income(mo) == IF mo \in income_months
                      THEN net_of(df_copy, "revenue", "cclass", "camt",
                                  "dclass", "damt", mo)
                      ELSE 0
        expense(mo) == IF mo \in expense_months
                       THEN net_of(df_copy, "expense", "dclass", "damt",
                                   "cclass", "camt", mo)
                       ELSE 0
        rows == [k \in 1..Len(months) |->
                    [month |-> months[k],
                     income |-> income(months[k]),
                     expense |-> expense(months[k]),
                     net |-> income(months[k]) - expense(months[k]),
                     year |-> year_of_month(months[k])]]
    IN [k \in 1..Len(rows) |->
        [month |-> rows[k].month, income |-> rows[k].income,
         expense |-> rows[k].expense, net |-> rows[k].net,
         year |-> rows[k].year, ytd |-> year_cumsum(rows, k)]]

-----------------------------------------------------------------------------
(* The journals the model reads. *)

Row(date, desc, dacct, damt, cacct, camt) ==
    [date |-> date, desc |-> desc, dacct |-> dacct, damt |-> damt,
     cacct |-> cacct, camt |-> camt]

Entry(dacct, damt, cacct, camt) ==
    [dacct |-> dacct, damt |-> damt, cacct |-> cacct, camt |-> camt]

WithHead(date, desc, e) == Row(date, desc, e.dacct, e.damt, e.cacct, e.camt)

Dates == 1..MaxDate

(* Every head a row can have, over two kinds of entry. *)
CalendarRows ==
    {WithHead(d, t, e) :
        d \in Dates \cup {NaT}, t \in Descriptions \cup {NaN},
        e \in {Entry("Cash", 1, "Sales", 1), Entry("Rent", MaxAmt, NaN, 0)}}

(* Dated entries that move assets and liabilities, and their continuation  *)
(* rows.                                                                   *)
TrendRows ==
    {WithHead(h[1], h[2], e) :
        h \in {<<d, "sale">> : d \in Dates} \cup {<<NaT, NaN>>},
        e \in {Entry("Cash", MaxAmt, "Loan", MaxAmt), Entry("Loan", 1, "Cash", 1),
               Entry("Cash", 1, "Sales", 1), Entry("Rent", 1, "Cash", 1),
               Entry("Misc", 1, "Loan", 1)}}

(* Entries over every class of account, one-sided legs, and an amount      *)
(* without an account name, as first rows and as continuation rows.        *)
BookEntries ==
    {Entry("Cash", MaxAmt, "Sales", MaxAmt), Entry("Cash", 1, "Sales", 1),
     Entry("Rent", 1, "Cash", 1), Entry("Cash", 1, "Loan", 1),
     Entry("Cash", 1, "RetainedEarnings", 1),
     Entry("CashOverShort", 1, "Cash", 1), Entry("Cash", 1, "CashOverShort", 1),
     Entry("Misc", 1, "Cash", 1),
     Entry("Rent", 1, NaN, 0), Entry("Rent", 1, "Cash", MaxAmt),
     Entry("Cash", 1, "Rent", 1),
     Entry(NaN, 0, "Cash", 1), Entry(NaN, 1, "Cash", 1)}

BookRows ==
    {WithHead(h[1], h[2], e) : h \in {<<1, "sale">>, <<NaT, NaN>>}, e \in BookEntries}

(* Revenue and expense entries, made and cancelled, over the months of two *)
(* years, and their continuation rows.                                     *)
MonthDates == 1..(MaxDate + 1)

CashflowRows ==
    {WithHead(h[1], h[2], e) :
        h \in {<<d, "sale">> : d \in MonthDates} \cup {<<NaT, NaN>>},
        e \in {Entry("Cash", MaxAmt, "Sales", MaxAmt), Entry("Sales", 1, "Cash", 1),
               Entry("Rent", 1, "Cash", 1), Entry("Cash", 1, "Rent", 1),
               Entry("Cash", 1, "Loan", 1)}}

JournalsOver(rows) == UNION {[1..n -> rows] : n \in 1..MaxRows}

Journals == JournalsOver(CalendarRows) \cup JournalsOver(TrendRows)
            \cup JournalsOver(BookRows) \cup JournalsOver(CashflowRows)

-----------------------------------------------------------------------------
(* main(): the steps of one run of the page. *)

Init ==
    /\ journal \in Journals
    /\ pc = "start"
    /\ df = <<>>
    /\ start_date = NaT
    /\ end_date = NaT
    /\ df_period = <<>>
    /\ df_ledger = <<>>
    /\ df_tb = <<>>
    /\ df_pl = <<>>
    /\ df_bs = <<>>
    /\ df_trend = <<>>
    /\ metrics = no_metrics
    /\ df_cf = <<>>

DateMax(s) ==
    LET present == {s[i] : i \in 1..Len(s)} \ {NaT}
    IN IF present = {} THEN NaT ELSE MaxOf(present)

ReadData ==
    /\ pc = "start"
    /\ df' = read_data(journal)
    /\ pc' = "loaded"
    /\ UNCHANGED <<journal, start_date, end_date, df_period, df_ledger,
                   df_tb, df_pl, df_bs, df_trend, metrics, df_cf>>

(* The sidebar's choice "all periods": from the first date to the last. *)
SelectAllPeriods ==
    /\ pc = "loaded"
    /\ start_date' = DateMin(Column(df, "date"))
    /\ end_date' = DateMax(Column(df, "date"))
    /\ df_period' = extract_period_data(df, start_date', end_date')
    /\ pc' = "period"
    /\ UNCHANGED <<journal, df, df_ledger, df_tb, df_pl, df_bs, df_trend,
                   metrics, df_cf>>

(* The sidebar's choice of one accounting period. *)
SelectPeriod ==
    /\ pc = "loaded"
    /\ \E s \in Dates, e \in Dates :
        /\ s <= e
        /\ start_date' = s
        /\ end_date' = e
        /\ df_period' = extract_period_data(df, s, e)
    /\ pc' = "period"
    /\ UNCHANGED <<journal, df, df_ledger, df_tb, df_pl, df_bs, df_trend,
                   metrics, df_cf>>

DisplayGeneralLedger ==
    /\ pc = "period"
    /\ df_ledger' = create_general_ledger(df_period)
    /\ pc' = "ledger"
    /\ UNCHANGED <<journal, df, start_date, end_date, df_period,
                   df_tb, df_pl, df_bs, df_trend, metrics, df_cf>>

DisplayFinancialStatements ==
    /\ pc = "ledger"
    /\ df_tb' = create_trial_balance(df_period)
    /\ df_pl' = create_financial_statements(df_tb').df_pl
    /\ df_bs' = create_financial_statements(df_tb').df_bs
    /\ pc' = "statements"
    /\ UNCHANGED <<journal, df, start_date, end_date, df_period, df_ledger,
                   df_trend, metrics, df_cf>>

CreateDashboard ==
    /\ pc = "statements"
    /\ df_tb' = create_trial_balance(df_period)
    /\ metrics' = prepare_kpi_data(df_tb')
    /\ df_trend' = calculate_daily_trends(df_period)
    /\ df_cf' = calculate_monthly_cashflow(df_period)
    /\ pc' = "dashboard"
    /\ UNCHANGED <<journal, df, start_date, end_date, df_period, df_ledger,
                   df_pl, df_bs>>

Next ==
    \/ ReadData
    \/ SelectAllPeriods
    \/ SelectPeriod
    \/ DisplayGeneralLedger
    \/ DisplayFinancialStatements
    \/ CreateDashboard

Spec == Init /\ [][Next]_vars

-----------------------------------------------------------------------------
(* Vocabulary of the properties. *)

RECURSIVE SumOver(_, _)
SumOver(f, S) ==
    IF S = {} THEN 0
    ELSE LET i == CHOOSE j \in S : TRUE IN f[i] + SumOver(f, S \ {i})

TxnIds(d) == {d[i].tid : i \in 1..Len(d)}

RowsOf(d, t) == {i \in 1..Len(d) : d[i].tid = t}

(* Every transaction's debit amounts and credit amounts have the same sum. *)
BalancedByAmounts(d) ==
    \A t \in TxnIds(d) :
        SumOver([i \in 1..Len(d) |-> d[i].damt], RowsOf(d, t))
        = SumOver([i \in 1..Len(d) |-> d[i].camt], RowsOf(d, t))

(* The same, counting only the amounts of legs that name an account. *)
BalancedByNamedLegs(d) ==
    \A t \in TxnIds(d) :
        SumOver([i \in 1..Len(d) |-> IF d[i].dacct # NaN THEN d[i].damt ELSE 0],
                RowsOf(d, t))
        = SumOver([i \in 1..Len(d) |-> IF d[i].cacct # NaN THEN d[i].camt ELSE 0],
                  RowsOf(d, t))

TrialBalanceShown == pc \in {"statements", "dashboard"}

TotalDebit(tb) == SumSeq(Column(tb, "debit"))
TotalCredit(tb) == SumSeq(Column(tb, "credit"))

-----------------------------------------------------------------------------
(* C1, as stated: when every transaction of the journal has equal sums of  *)
(* debit amounts and credit amounts, the trial balance's debit totals and  *)
(* credit totals have the same sum.                                        *)
C1_BalancedAmountsGiveBalancedTrialBalance ==
    (TrialBalanceShown /\ BalancedByAmounts(df_period))
        => TotalDebit(df_tb) = TotalCredit(df_tb)

(* C1, amended: when in every transaction of the journal the amounts of    *)
(* the debit legs that name an account and those of the credit legs that   *)
(* name an account have the same sum, the trial balance's debit totals and *)
(* credit totals have the same sum.                                        *)
C1_BalancedLegsGiveBalancedTrialBalance ==
    (TrialBalanceShown /\ BalancedByNamedLegs(df_period))
        => TotalDebit(df_tb) = TotalCredit(df_tb)

(* A balanced journal of which the carry-forward filter dropped a          *)
(* transaction and kept another, with its trial balance made.              *)
C1_Witness ==
    /\ pc = "statements"
    /\ BalancedByNamedLegs(df_period)
    /\ Len(remove_intermediate_carry_forwards(df_period)) < Len(df_period)
    /\ Len(df_tb) = 2
    /\ TotalDebit(df_tb) > 0

-----------------------------------------------------------------------------
(* C2: for a balanced journal the balance sheet's asset total is the sum   *)
(* of its liability total and its equity total.                            *)
C2_AssetsEqualLiabilitiesPlusEquity ==
    (pc = "statements" /\ BalancedByAmounts(df_period) /\ BalancedByNamedLegs(df_period))
        => section_total(df_bs, "asset")
           = section_total(df_bs, "liability") + section_total(df_bs, "equity")

-----------------------------------------------------------------------------
(* C3: of every transaction of the journal, the extracted period holds     *)
(* every row or none, in the journal's order, and it holds the transaction *)
(* exactly when one of its rows has a forward-filled date in the window.   *)
FilledDate(d, i) == ffill(Column(d, "date"), NaT)[i]

InWindow(date) == date # NaT /\ start_date # NaT /\ end_date # NaT
                  /\ start_date <= date /\ date <= end_date

C3_ExtractionIsTransactionAtomic ==
    pc = "period" =>
        /\ \A t \in TxnIds(df) :
            /\ Cardinality(RowsOf(df_period, t)) \in {0, Cardinality(RowsOf(df, t))}
            /\ RowsOf(df_period, t) # {}
                <=> \E i \in RowsOf(df, t) : InWindow(FilledDate(df, i))
        /\ df_period = SelectSeq(df, LAMBDA r : RowsOf(df_period, r.tid) # {})

(* A period that holds a transaction none of whose rows carries a date of  *)
(* its own: its date is the one filled in from the rows above.             *)
C3_Witness ==
    /\ pc = "period"
    /\ \E i \in 1..Len(df) :
        /\ df[i].desc # NaN
        /\ \A j \in RowsOf(df, df[i].tid) : df[j].date = NaT
        /\ RowsOf(df_period, df[i].tid) # {}

-----------------------------------------------------------------------------
(* C4: the carry-forward filter applied to its own result returns that     *)
(* result, and finds the same first date as the first application.         *)
FirstDate(d) == DateMin(Column(ffill_date_desc(d), "date"))

C4_FilterIsIdempotent ==
    pc = "period" =>
        LET once == remove_intermediate_carry_forwards(df_period)
        IN /\ remove_intermediate_carry_forwards(once) = once
           /\ FirstDate(once) = FirstDate(df_period)

(* The filter dropped a row of the period and kept another. *)
C4_Witness ==
    /\ pc = "period"
    /\ remove_intermediate_carry_forwards(df_period) # <<>>
    /\ Len(remove_intermediate_carry_forwards(df_period)) < Len(df_period)

-----------------------------------------------------------------------------
(* C5: each day's asset and liability balance is the day before's plus the *)
(* day's change, the first day's is its change, and each day's equity is   *)
(* its asset balance less its liability balance.                           *)
SignedChange(leg, class) ==
    IF classify(leg.account) # class THEN 0
    ELSE IF (class = "asset" /\ leg.side = "debit")
            \/ (class = "liability" /\ leg.side = "credit")
         THEN leg.amount
         ELSE -leg.amount

Delta(ledger, day, class) ==
    SumOver([i \in 1..Len(ledger) |-> SignedChange(ledger[i], class)],
            {i \in 1..Len(ledger) : ledger[i].date = day})

-----------------------------------------------------------------------------
(* C6: a dynamic account of the trial balance is an expense when its       *)
(* balance (debit total less credit total) is positive, a revenue when it  *)
(* is negative, and neither when it is zero; the class of any other        *)
(* account is the one the classification map gives, or unknown.            *)
C6_DynamicAccountClassifiedBySign ==
    TrialBalanceShown =>
        \A k \in 1..Len(df_tb) :
            LET r == df_tb[k]
            IN /\ r.diff = r.debit - r.credit
               /\ r.account \in DYNAMIC_ACCOUNTS =>
                    /\ r.diff > 0 => r.class = "expense"
                    /\ r.diff < 0 => r.class = "revenue"
                    /\ r.diff = 0 => r.class \notin {"expense", "revenue"}
               /\ r.account \notin DYNAMIC_ACCOUNTS =>
                    r.class = (IF r.account \in DOMAIN ACCOUNT_TYPE_MAP
                               THEN ACCOUNT_TYPE_MAP[r.account] ELSE "unknown")

(* A trial balance with a dynamic account whose debits and credits cancel. *)
C6_Witness ==
    /\ pc = "statements"
    /\ \E k \in 1..Len(df_tb) :
        /\ df_tb[k].account \in DYNAMIC_ACCOUNTS
        /\ df_tb[k].debit > 0
        /\ df_tb[k].diff = 0

-----------------------------------------------------------------------------
(* C7: the counterparty of a ledger entry is decided by the set of         *)
(* distinct account names on the other side of its transaction: none gives *)
(* the placeholder, one gives that name, two or more give the sentinel.    *)
OtherSideNames(leg) ==
    {df_ledger[j].account : j \in {i \in 1..Len(df_ledger) :
                                    /\ df_ledger[i].tid = leg.tid
                                    /\ df_ledger[i].side # leg.side}}

C7_CounterpartyByDistinctNames ==
    pc = "ledger" =>
        \A k \in 1..Len(df_ledger) :
            LET names == OtherSideNames(df_ledger[k])
            IN /\ names = {} => df_ledger[k].partner = "-"
               /\ Cardinality(names) = 1 => df_ledger[k].partner \in names
               /\ Cardinality(names) >= 2 => df_ledger[k].partner = "shokuchi"

-----------------------------------------------------------------------------
(* C8: an account the classification map does not hold is of class         *)
(* unknown, stands in the trial balance after every account of a known     *)
(* class, and is a row of the statements made from that trial balance.     *)
Known(class) == class # "unknown"

C8_UnknownAccountStaysVisible ==
    pc = "statements" =>
        \A k \in 1..Len(df_tb) :
            (df_tb[k].account \notin DOMAIN ACCOUNT_TYPE_MAP
             /\ df_tb[k].account \notin DYNAMIC_ACCOUNTS) =>
                /\ df_tb[k].class = "unknown"
                /\ \A j \in 1..Len(df_tb) : Known(df_tb[j].class) => j < k
                /\ \/ \E j \in 1..Len(df_pl) : df_pl[j].account = df_tb[k].account
                   \/ \E j \in 1..Len(df_bs) : df_bs[j].account = df_tb[k].account

-----------------------------------------------------------------------------
(* C9: one transaction that debits an asset account by x and credits a     *)
(* revenue account by x gives a trial balance of exactly those two rows, a *)
(* net income of x, and a balance sheet of the asset at x and one          *)
(* retained-earnings row of class equity at x.                             *)
OneSale(d, a, r, x) ==
    /\ d # <<>>
    /\ Cardinality(TxnIds(d)) = 1
    /\ classify(a) = "asset"
    /\ classify(r) = "revenue"
    /\ x > 0
    /\ \E i \in 1..Len(d) :
        /\ d[i].dacct = a /\ d[i].damt = x
        /\ \A j \in 1..Len(d) : j # i => (d[j].dacct = NaN /\ d[j].damt = 0)
    /\ \E i \in 1..Len(d) :
        /\ d[i].cacct = r /\ d[i].camt = x
        /\ \A j \in 1..Len(d) : j # i => (d[j].cacct = NaN /\ d[j].camt = 0)

TrialBalanceFacts(r) ==
    [account |-> r.account, debit |-> r.debit, credit |-> r.credit,
     diff |-> r.diff, class |-> r.class]

C9_OneSaleStatements ==
    pc = "statements" =>
      \A a \in Accounts, r \in Accounts, x \in 1..MaxAmt :
        OneSale(df_period, a, r, x) =>
            /\ Len(df_tb) = 2
            /\ {TrialBalanceFacts(df_tb[k]) : k \in 1..Len(df_tb)}
                = {[account |-> a, debit |-> x, credit |-> 0, diff |-> x,
                    class |-> "asset"],
                   [account |-> r, debit |-> 0, credit |-> x, diff |-> -x,
                    class |-> "revenue"]}
            /\ net_income(df_tb) = x
            /\ Len(df_bs) = 2
            /\ \E k \in 1..2 :
                /\ df_bs[k].account = a
                /\ df_bs[k].class = "asset"
                /\ df_bs[k].balance = x
            /\ \E k \in 1..2 :
                /\ df_bs[k].account = target_account
                /\ df_bs[k].class = "equity"
                /\ df_bs[k].balance = x

(* The statements of a journal of one sale. *)
C9_Witness ==
    /\ pc = "statements"
    /\ \E a \in Accounts, r \in Accounts, x \in 1..MaxAmt : OneSale(df_period, a, r, x)

-----------------------------------------------------------------------------
(* C10: the date and the description of every ledger entry are those of a  *)
(* row of its own transaction, and a transaction that reaches the trial    *)
(* balance's filter is dropped by it only for a description of its own.    *)
OwnDates(t) == {df_period[i].date : i \in RowsOf(df_period, t)}
OwnDescriptions(t) == {df_period[i].desc : i \in RowsOf(df_period, t)}

C10_FillStaysWithinTransaction ==
    pc = "ledger" =>
        /\ \A k \in 1..Len(df_ledger) :
            /\ df_ledger[k].date \in OwnDates(df_ledger[k].tid)
            /\ df_ledger[k].desc \in OwnDescriptions(df_ledger[k].tid)
        /\ \A t \in TxnIds(df_period) :
            RowsOf(remove_intermediate_carry_forwards(df_period), t) = {}
                => \E desc \in OwnDescriptions(t) : str_contains_pattern(desc)

-----------------------------------------------------------------------------
(* C11: net income as the revenue rows' absolute balances less the expense *)
(* rows' absolute balances is net income as the negated sum of the signed  *)
(* balances of the revenue and expense rows, in the income statement and   *)
(* in the dashboard's figures, whatever the sign of a row's balance.       *)
SignedProfitAndLoss(rows) ==
    SumSeq(Column(SelectSeq(rows, LAMBDA r : r.class \in {"revenue", "expense"}),
                  "diff"))

C11_NetIncomeDefinitionsAgree ==
    /\ pc = "statements" =>
            class_total(df_pl, "revenue") - class_total(df_pl, "expense")
                = -SignedProfitAndLoss(df_pl)
    /\ pc = "dashboard" => metrics.net_income = -SignedProfitAndLoss(df_tb)

-----------------------------------------------------------------------------
(* C12: a row starts a transaction exactly when its date or its            *)
(* description is not blank, and every row's id is the number of start     *)
(* rows at or before it: ids never decrease down the file, grow by exactly *)
(* one at a start row and stay on a continuation row.  The ids are those   *)
(* read_data returns; no later step changes them.                          *)
StartRows == {i \in 1..Len(journal) : journal[i].date # NaT \/ journal[i].desc # NaN}

IdsCountStartRows ==
    /\ Len(df) = Len(journal)
    /\ \A i \in 1..Len(df) :
        LET before == IF i = 1 THEN 0 ELSE df[i - 1].tid
        IN /\ df[i].tid = Cardinality({j \in StartRows : j <= i})
           /\ df[i].tid >= before
           /\ i \in StartRows => df[i].tid = before + 1
           /\ i \notin StartRows => df[i].tid = before

(* C12, as stated: and every row of every journal has an id from 1 to the  *)
(* number of start rows, also the rows of a journal whose first row is a   *)
(* continuation row.                                                       *)
C12_IdsFromOneToGroupCount ==
    pc = "loaded" =>
        /\ IdsCountStartRows
        /\ \A i \in 1..Len(df) : df[i].tid \in 1..Cardinality(StartRows)

(* C12, amended: and every row has an id from 0 to the number of start     *)
(* rows, 0 on exactly the rows above the first start row.                  *)
C12_IdsFromZeroToGroupCount ==
    pc = "loaded" =>
        /\ IdsCountStartRows
        /\ \A i \in 1..Len(df) :
            /\ df[i].tid \in 0..Cardinality(StartRows)
            /\ df[i].tid = 0 <=> \A j \in 1..i : j \notin StartRows

(* A journal read whose first row is a continuation row and whose second   *)
(* row starts a transaction by its description alone.                      *)
C12_Witness ==
    /\ pc = "loaded"
    /\ Len(df) = 2
    /\ journal[1].date = NaT /\ journal[1].desc = NaN
    /\ journal[2].date = NaT /\ journal[2].desc # NaN
    /\ df[1].tid = 0
    /\ df[2].tid = 1

-----------------------------------------------------------------------------
(* C13: in the monthly cash flow, a month's income is the revenue credited *)
(* less the revenue debited by the rows of the month, its expense is the   *)
(* expense debited less the expense credited by them, its net is income    *)
(* less expense, and its year-to-date value is the sum of the nets of the  *)
(* months of its calendar year up to it; the months stand in order of      *)
(* time.                                                                   *)
RowsOfMonth(month) ==
    {i \in 1..Len(df_period) : strftime_Ym(FilledDate(df_period, i)) = month}

AmountOf(class, side_class, amount) == IF side_class = class THEN amount ELSE 0

Income(i) ==
    AmountOf("revenue", classify(df_period[i].cacct), df_period[i].camt)
        - AmountOf("revenue", classify(df_period[i].dacct), df_period[i].damt)

Expense(i) ==
    AmountOf("expense", classify(df_period[i].dacct), df_period[i].damt)
        - AmountOf("expense", classify(df_period[i].cacct), df_period[i].camt)

CalendarYear(month) ==
    CHOOSE y \in 1..(MaxDate + 1) :
        \E d \in MonthDates :
            /\ strftime_Ym(d) = month
            /\ y = ((d - 1) \div MonthsPerYear) + 1

C13_YearToDateRestartsEachYear ==
    pc = "dashboard" =>
        \A k \in 1..Len(df_cf) :
            LET row == df_cf[k]
                same_year_so_far ==
                    {j \in 1..Len(df_cf) :
                        /\ df_cf[j].month <= row.month
                        /\ CalendarYear(df_cf[j].month) = CalendarYear(row.month)}
            IN /\ row.income
                    = SumOver([i \in 1..Len(df_period) |-> Income(i)],
                              RowsOfMonth(row.month))
               /\ row.expense
                    = SumOver([i \in 1..Len(df_period) |-> Expense(i)],
                              RowsOfMonth(row.month))
               /\ row.net = row.income - row.expense
               /\ row.ytd = SumOver([j \in 1..Len(df_cf) |-> df_cf[j].net],
                                    same_year_so_far)
               /\ k > 1 => df_cf[k - 1].month < row.month

(* A cash flow of two months of different years, each with a net that is   *)
(* not zero: the second month's year-to-date value is its own net.         *)
C13_Witness ==
    /\ pc = "dashboard"
    /\ Len(df_cf) = 2
    /\ CalendarYear(df_cf[1].month) # CalendarYear(df_cf[2].month)
    /\ df_cf[1].net # 0
    /\ df_cf[2].net # 0
    /\ df_cf[2].ytd = df_cf[2].net

-----------------------------------------------------------------------------
(* C14: the rows of one transaction have one forward-filled date and one   *)
(* forward-filled description, the carry-forward filter keeps every row of *)
(* a transaction or none, a journal balanced in every transaction stays so *)
(* through the filter, and no row is dropped whose forward-filled date is  *)
(* the first date or is blank.                                             *)
FilterKeepsWholeTransactions(d) ==
    LET kept == remove_intermediate_carry_forwards(d)
        dates == ffill(Column(d, "date"), NaT)
        descs == ffill(Column(d, "desc"), NaN)
        first == DateMin(dates)
    IN /\ \A i \in 1..Len(d), j \in 1..Len(d) :
            d[i].tid = d[j].tid => (dates[i] = dates[j] /\ descs[i] = descs[j])
       /\ \A t \in TxnIds(d) :
            Cardinality(RowsOf(kept, t)) \in {0, Cardinality(RowsOf(d, t))}
       /\ \A k \in 1..Len(kept) :
            \E i \in RowsOf(d, kept[k].tid) :
                kept[k].date = dates[i] /\ kept[k].desc = descs[i]
       /\ BalancedByAmounts(d) => BalancedByAmounts(kept)
       /\ BalancedByNamedLegs(d) => BalancedByNamedLegs(kept)
       /\ \A i \in 1..Len(d) :
            dates[i] \in {NaT, first} => RowsOf(kept, d[i].tid) # {}

-----------------------------------------------------------------------------
(* C15: when every leg of the ledger has a date, the last day of the daily *)
(* trend has for asset balance the sum of the signed balances (debit less  *)
(* credit) of the trial balance's asset accounts, and for liability        *)
(* balance the negated sum of those of its liability accounts.             *)
SignedTotal(tb, class) ==
    SumSeq(Column(SelectSeq(tb, LAMBDA r : r.class = class), "diff"))

EveryLegDated(d) ==
    LET ledger == make_ledger_data(remove_intermediate_carry_forwards(d))
    IN \A k \in 1..Len(ledger) : ledger[k].date # NaT

====
